---- MODULE Spec2Model ----
(***************************************************************************)
(* Model of the access-control and error-propagation core of oj-back:      *)
(* utils/authority.rs (Authority, Jwt, check_authority), utils/error.rs    *)
(* (Error, handle_error), api/front.rs (Res) and the handlers of           *)
(* module/user.rs and module/record.rs that consume them.                  *)
(*                                                                         *)
(* Strings are sequences of one-character strings, so that find(':') and   *)
(* slicing in handle_error are computed, not assumed.  Option<T> is a      *)
(* sequence of length 0 (None) or 1 (Some).                                *)
(***************************************************************************)
EXTENDS Integers, Sequences, FiniteSets, TLC

VARIABLES
  now,      \* the clock, unix seconds (OffsetDateTime::now_utc / get_current_timestamp)
  issued,   \* history of Jwt::encode calls: the tokens handed to clients
  last,     \* the most recent Jwt::decode / check_authority call and its result
  err,      \* the Error value an operation returned to handle_error
  users,    \* table `user`: uid -> row
  nextUid,  \* auto-increment counter of table `user`
  records,  \* table `record`: sequence of rows, rid = index
  problems, \* table `problem`: pid -> row
  nextPid,  \* auto-increment counter of table `problem`
  pending,  \* requests suspended at an .await: what each task holds in its locals
  resp      \* the last handler invocation: envelopes rendered, log lines, cookie

vars == <<now, issued, last, err, users, nextUid, records, problems, nextPid, pending, resp>>

None == <<>>
Some(x) == <<x>>

\* ---------------------------------------------------------------- bounds
MaxTokens == 1      \* tokens issued by /user/login in one behaviour
MaxId == 2          \* subject / owner ids range over 0..MaxId
Expires == 1        \* config.auth.expires, in days
MaxLen == 3         \* longest detail string drawn for handle_error
MaxUsers == 2       \* rows ever inserted into table `user`
MaxRecords == 1     \* rows ever inserted into table `record`
MaxProblems == 1    \* rows ever inserted into table `problem`
MaxPending == 2     \* requests suspended at an .await at one time

\* ------------------------------------------------------- utils/authority.rs
Authority == {"Tourist", "User", "Judger", "Admin"}

\* a mis-numbered scale: Judger and Admin exchanged
Discriminant_swapped(a) ==
  CASE a = "Tourist" -> 0
    [] a = "User" -> 10
    [] a = "Judger" -> 30
    [] a = "Admin" -> 20

\* #[repr(u16)] discriminants of enum Authority
Discriminant(a) ==
  CASE a = "Tourist" -> 0
    [] a = "User" -> 10
    [] a = "Judger" -> 20
    [] a = "Admin" -> 30

\* derive(PartialOrd) on a field-less enum orders by discriminant
AuthGe(a, b) == Discriminant(a) >= Discriminant(b)

\* Serialize_repr: the level is written as its number
AuthorityRepr(a) == Discriminant(a)

\* Deserialize_repr: a number that is no discriminant is an error (None)
AuthorityFromRepr(n) ==
  IF \E a \in Authority : Discriminant(a) = n
    THEN Some(CHOOSE a \in Authority : Discriminant(a) = n)
    ELSE None

Secret == "config.auth.secret"
SecondsPerDay == 86400
Leeway == 60        \* Validation::default().leeway

\* Duration::days(config.auth.expires)
Window == Expires * SecondsPerDay

\* HMAC over the serialized claims: equal exactly for equal claims and key
Sign(id, auth, exp, key) == <<id, auth, exp, key>>

\* Jwt::encode at clock t: claims {id, auth, exp} signed with the secret
Jwt_encode(id, auth, t) ==
  LET exp == t + Window
      repr == AuthorityRepr(auth)
  IN [token |-> [id |-> id, auth |-> repr, exp |-> exp,
                 sig |-> Sign(id, repr, exp, Secret)],
      exp |-> exp]

\* Jwt::decode that drops the leeway of Validation::default()
Jwt_decode_strict(token, t) ==
  IF token.sig # Sign(token.id, token.auth, token.exp, Secret)
    THEN [ok |-> FALSE, error |-> "InvalidSignature"]
  ELSE IF token.exp <= t
    THEN [ok |-> FALSE, error |-> "ExpiredSignature"]
  ELSE IF AuthorityFromRepr(token.auth) = None
    THEN [ok |-> FALSE, error |-> "Json"]
  ELSE [ok |-> TRUE, id |-> token.id, auth |-> AuthorityFromRepr(token.auth)[1]]

\* Jwt::decode that returns the level by position, not by number
Jwt_decode_lossy(token, t) ==
  IF token.sig # Sign(token.id, token.auth, token.exp, Secret)
    THEN [ok |-> FALSE, error |-> "InvalidSignature"]
  ELSE IF token.exp < t - Leeway
    THEN [ok |-> FALSE, error |-> "ExpiredSignature"]
  ELSE IF AuthorityFromRepr(token.auth) = None
    THEN [ok |-> FALSE, error |-> "Json"]
  ELSE [ok |-> TRUE, id |-> token.id,
        auth |-> IF token.auth >= 20 THEN "User" ELSE AuthorityFromRepr(token.auth)[1]]

\* Jwt::decode that looks the subject up in table `user` (a revocation check)
Jwt_decode_stored(token, t) ==
  IF token.sig # Sign(token.id, token.auth, token.exp, Secret)
    THEN [ok |-> FALSE, error |-> "InvalidSignature"]
  ELSE IF token.exp < t - Leeway
    THEN [ok |-> FALSE, error |-> "ExpiredSignature"]
  ELSE IF token.id \notin DOMAIN users
    THEN [ok |-> FALSE, error |-> "Revoked"]
  ELSE [ok |-> TRUE, id |-> token.id, auth |-> users[token.id].auth]

\* Jwt::decode with signature validation switched off
Jwt_decode_unsigned(token, t) ==
  IF token.exp < t - Leeway
    THEN [ok |-> FALSE, error |-> "ExpiredSignature"]
  ELSE IF AuthorityFromRepr(token.auth) = None
    THEN [ok |-> FALSE, error |-> "Json"]
  ELSE [ok |-> TRUE, id |-> token.id, auth |-> AuthorityFromRepr(token.auth)[1]]

\* Jwt::decode at clock t: signature, then exp (Validation::default():
\* validate_exp, leeway 60 s: expired iff exp < now - leeway), then the claims
Jwt_decode(token, t) ==
  IF token.sig # Sign(token.id, token.auth, token.exp, Secret)
    THEN [ok |-> FALSE, error |-> "InvalidSignature"]
  ELSE IF token.exp < t - Leeway
    THEN [ok |-> FALSE, error |-> "ExpiredSignature"]
  ELSE IF AuthorityFromRepr(token.auth) = None
    THEN [ok |-> FALSE, error |-> "Json"]
  ELSE [ok |-> TRUE, id |-> token.id, auth |-> AuthorityFromRepr(token.auth)[1]]

\* check_authority mis-ported as "owner AND sufficient level"
check_authority_and(token, id, auth, t) ==
  LET d == Jwt_decode(token, t)
  IN IF d.ok THEN d.id = id /\ AuthGe(d.auth, auth) ELSE FALSE

\* check_authority that lets an unverifiable token pass the lowest floor
check_authority_open(token, id, auth, t) ==
  LET d == Jwt_decode(token, t)
  IN IF d.ok THEN d.id = id \/ AuthGe(d.auth, auth) ELSE auth = "Tourist"

check_authority(token, id, auth, t) ==
  LET d == Jwt_decode(token, t)
  IN IF d.ok THEN d.id = id \/ AuthGe(d.auth, auth) ELSE FALSE

\* ----------------------------------------------------------- utils/error.rs
\* enum Error: the variants and the detail each carries
ErrorKinds == {"JsonParseError", "RbatisError", "TokenError", "DuplicateData",
               "NoToken", "EmptyData", "WrongPassword", "DataNotFound", "NoAuthority"}

Error(kind, detail) == [kind |-> kind, detail |-> detail]

\* the variant's name as written in its #[error("Name: {0}")] attribute
KindName(k) ==
  CASE k = "DuplicateData" -> <<"D", "u", "p", "l", "i", "c", "a", "t", "e", "D", "a", "t", "a">>
    [] k = "NoToken" -> <<"N", "o", "T", "o", "k", "e", "n">>
    [] k = "EmptyData" -> <<"E", "m", "p", "t", "y", "D", "a", "t", "a">>
    [] k = "WrongPassword" -> <<"W", "r", "o", "n", "g", "P", "a", "s", "s", "w", "o", "r", "d">>
    [] k = "DataNotFound" -> <<"D", "a", "t", "a", "N", "o", "t", "F", "o", "u", "n", "d">>
    [] k = "NoAuthority" -> <<"N", "o", "A", "u", "t", "h", "o", "r", "i", "t", "y">>

\* Display with no space after the separator: "Kind:{0}"
to_string_nospace(e) ==
  IF e.kind \in {"JsonParseError", "RbatisError", "TokenError"}
    THEN e.detail
    ELSE KindName(e.kind) \o <<":">> \o e.detail

\* Display (thiserror): "{0}" for the three wrapped errors, "Kind: {0}" otherwise
to_string(e) ==
  IF e.kind \in {"JsonParseError", "RbatisError", "TokenError"}
    THEN e.detail
    ELSE KindName(e.kind) \o <<":", " ">> \o e.detail

\* a character outside ASCII: U+00E9 takes two bytes in UTF-8
EAcute == "U+00E9"

\* char::len_utf8
Utf8Len(c) == IF c = EAcute THEN 2 ELSE 1

\* str::find(c): the first c, None when there is none; the byte index the
\* code gets is kept as the position (from 1) of the character that starts there
Find(text, c) ==
  IF \E i \in 1..Len(text) : text[i] = c
    THEN Some(CHOOSE i \in 1..Len(text) :
                text[i] = c /\ \A j \in 1..(i - 1) : text[j] # c)
    ELSE None

\* the position of the character that starts n bytes after the start of
\* character i (Len + 1 for the end of the text); 0 when that byte index is
\* inside a character or past the end, where slicing aborts
RECURSIVE CharAfter(_, _, _)
CharAfter(text, i, n) ==
  IF n = 0 THEN i
  ELSE IF i > Len(text) \/ Utf8Len(text[i]) > n THEN 0
  ELSE CharAfter(text, i + 1, n - Utf8Len(text[i]))

\* ------------------------------------------------------------ api/front.rs
\* struct Res {status, message, data}, each an Option
Res(status, message, data) == [status |-> status, message |-> message, data |-> data]

\* json!(a string) and json!(a row)
JsonString(s) == [type |-> "string", value |-> s]
JsonObject(o) == [type |-> "object", value |-> o]

Res_success == Res(Some("success"), None, None)
Res_success_data(data) == Res(Some("success"), None, Some(data))

InternalErrorMsg == <<"i", "n", "t", "e", "r", "n", "a", "l", " ", "e", "r", "r", "o", "r">>

\* what one run of the macro's error arm leaves behind
Outcome(log, rendered, panicked) == [log |-> log, rendered |-> rendered, panicked |-> panicked]

\* handle_error with every variant sent through the second arm
handle_error_allclient(e) ==
  LET text == to_string(e)
      index == Find(text, ":")
      warn == <<[level |-> "warn", text |-> text]>>
  IN IF index = None \/ CharAfter(text, index[1], 2) = 0
       THEN Outcome(warn, <<>>, TRUE)
       ELSE Outcome(warn,
                    <<Res(Some("error"), Some(SubSeq(text, 1, index[1] - 1)),
                          Some(JsonString(SubSeq(text, CharAfter(text, index[1], 2),
                                                 Len(text)))))>>,
                    FALSE)

\* handle_error whose second arm cuts the data one character late
handle_error_offbyone(e) ==
  LET text == to_string(e)
      index == Find(text, ":")
      warn == <<[level |-> "warn", text |-> text]>>
  IN IF e.kind \in {"JsonParseError", "RbatisError", "TokenError"}
       THEN Outcome(<<[level |-> "error", text |-> text]>>,
                    <<Res(Some("error"), Some(InternalErrorMsg), Some(JsonString(text)))>>,
                    FALSE)
     ELSE IF index = None \/ CharAfter(text, index[1], 3) = 0
       THEN Outcome(warn, <<>>, TRUE)
       ELSE Outcome(warn,
                    <<Res(Some("error"), Some(SubSeq(text, 1, index[1] - 1)),
                          Some(JsonString(SubSeq(text, CharAfter(text, index[1], 3),
                                                 Len(text)))))>>,
                    FALSE)

\* macro handle_error, the arm taken for Err(e): the first arm renders
\* "internal error" with e.to_string() as data; the second splits the text at
\* the first ':' (find(':').unwrap(), text[..index], text[index + 2..]) and
\* aborts when there is no ':' or the slice does not start on a character
\* boundary of the text (past the end, or inside a character)
handle_error(e) ==
  LET text == to_string(e)
      index == Find(text, ":")
      warn == <<[level |-> "warn", text |-> text]>>
  IN IF e.kind \in {"JsonParseError", "RbatisError", "TokenError"}
       THEN Outcome(<<[level |-> "error", text |-> text]>>,
                    <<Res(Some("error"), Some(InternalErrorMsg), Some(JsonString(text)))>>,
                    FALSE)
     ELSE IF index = None \/ CharAfter(text, index[1], 2) = 0
       THEN Outcome(warn, <<>>, TRUE)
       ELSE Outcome(warn,
                    <<Res(Some("error"), Some(SubSeq(text, 1, index[1] - 1)),
                          Some(JsonString(SubSeq(text, CharAfter(text, index[1], 2),
                                                 Len(text)))))>>,
                    FALSE)

\* ------------------------------------------------- the token codec, applied
NoCall == [op |-> "none"]
NoResp == [handler |-> "none", rendered |-> <<>>, log |-> <<>>, cookie |-> None,
           panicked |-> FALSE]

Ids == 0..MaxId

\* what a client can present in place of a token it was handed: the token,
\* its signature segment changed, its payload changed without re-signing
\* (subject, level, expiry), or a payload whose level is no discriminant
Presentable(tok) ==
  { tok,
    [tok EXCEPT !.sig = Sign(tok.id, tok.auth, tok.exp, "another key")],
    [tok EXCEPT !.id = (tok.id + 1) % (MaxId + 1)],
    [tok EXCEPT !.auth = IF tok.auth = Discriminant("Admin")
                           THEN Discriminant("Tourist") ELSE Discriminant("Admin")],
    [tok EXCEPT !.exp = tok.exp + Window],
    [tok EXCEPT !.auth = tok.auth + 5, !.sig = Sign(tok.id, tok.auth + 5, tok.exp, Secret)] }

TokenInputs == UNION {Presentable(i.token) : i \in issued}

\* the instants around each issued token's expiry at which the clock is read
Instants ==
  UNION {{i.token.exp - 1, i.token.exp, i.token.exp + Leeway, i.token.exp + Leeway + 1} :
           i \in issued}

\* time passes
Tick ==
  /\ \E t \in Instants : t > now /\ now' = t
  /\ UNCHANGED <<problems, nextPid, pending, issued, last, err, users, nextUid, records, resp>>

\* Jwt::encode(id, auth) called at the current clock; the codec is followed
\* through the life of one token
Encode(id, auth) ==
  /\ issued = {}
  /\ issued' = issued \cup {[token |-> Jwt_encode(id, auth, now).token,
                              id |-> id, auth |-> auth, iat |-> now]}
  /\ UNCHANGED <<problems, nextPid, pending, now, last, err, users, nextUid, records, resp>>

\* Jwt::decode(token) called at the current clock
Decode(tok) ==
  /\ last' = [op |-> "decode", token |-> tok, at |-> now, res |-> Jwt_decode(tok, now)]
  /\ UNCHANGED <<problems, nextPid, pending, now, issued, err, users, nextUid, records, resp>>

\* check_authority(token, id, auth) called at the current clock
Check(tok, id, auth) ==
  /\ last' = [op |-> "check", token |-> tok, id |-> id, auth |-> auth, at |-> now,
              res |-> check_authority(tok, id, auth, now)]
  /\ UNCHANGED <<problems, nextPid, pending, now, issued, err, users, nextUid, records, resp>>

InitAuth ==
  /\ now = 0
  /\ issued = {}
  /\ last = NoCall
  /\ err = None
  /\ users = <<>>
  /\ nextUid = 1
  /\ records = <<>>
  /\ problems = <<>>
  /\ nextPid = 1
  /\ pending = {}
  /\ resp = NoResp

NextAuth ==
  \/ Tick
  \/ \E id \in Ids, auth \in Authority : Encode(id, auth)
  \/ \E tok \in TokenInputs : Decode(tok)
  \/ \E tok \in TokenInputs, id \in Ids, auth \in Authority : Check(tok, id, auth)

SpecAuth == InitAuth /\ [][NextAuth]_vars

\* ------------------------------------------------ the error arm, applied
Alphabet == {"a", ":", " ", EAcute}

RECURSIVE Strings(_)
Strings(n) ==
  IF n = 0 THEN {<<>>}
  ELSE Strings(n - 1) \cup {Append(s, c) : s \in {x \in Strings(n - 1) : Len(x) = n - 1},
                                           c \in Alphabet}

\* handle_error!(operation, response) for an operation that returned Err(e)
HandleError ==
  /\ err # None
  /\ resp = NoResp
  /\ LET o == handle_error(err[1])
     IN resp' = [handler |-> "operation", rendered |-> o.rendered, log |-> o.log,
                 cookie |-> None, panicked |-> o.panicked]
  /\ UNCHANGED <<problems, nextPid, pending, now, issued, last, err, users, nextUid, records>>

InitErr ==
  /\ now = 0
  /\ issued = {}
  /\ last = NoCall
  /\ err \in {Some(Error(k, d)) : k \in ErrorKinds, d \in Strings(MaxLen)}
  /\ users = <<>>
  /\ nextUid = 1
  /\ records = <<>>
  /\ problems = <<>>
  /\ nextPid = 1
  /\ pending = {}
  /\ resp = NoResp

NextErr == HandleError

SpecErr == InitErr /\ [][NextErr]_vars

\* ------------------------------------------------------------ module/user.rs
EmptyUserOrPw == <<"E", "m", "p", "t", "y", " ", "u", "s", "e", "r", "n", "a", "m", "e", " ", "o", "r", " ", "p", "a", "s", "s", "o", "w", "r", "d", ".">>
EmptyDot == <<"E", "m", "p", "t", "y", ".">>
UidNotFound == <<"U", "i", "d", " ", "n", "o", "t", " ", "f", "o", "u", "n", "d", ".">>
SendFailed == <<"S", "e", "n", "d", " ", "f", "a", "i", "l", "e", "d">>
AccountPfx == <<"a", "c", "c", "o", "u", "n", "t", ":", " ">>
PasswordPfx == <<",", " ", "p", "a", "s", "s", "w", "o", "r", "d", ":", " ">>
UserPfx == <<"U", "s", "e", "r", " ">>
DefaultAvatar == <<"h", "t", "t", "p", ":", "/", "/", "1", "2", "7", ".", "0", ".", "0", ".", "1", ":", "8", "0", "0", "1", "/", "n", "u", "l", "l">>

DigitChars == <<"0", "1", "2", "3", "4", "5", "6", "7", "8", "9">>

\* i32::to_string / "{}" of an i32
RECURSIVE I32ToString(_)
I32ToString(n) ==
  IF n < 0 THEN <<"-">> \o I32ToString(0 - n)
  ELSE IF n < 10 THEN <<DigitChars[n + 1]>>
  ELSE I32ToString(n \div 10) \o <<DigitChars[(n % 10) + 1]>>

\* the text of a salvo ParseError and of an rbdc::Error, as Display gives them
ParseErrorText == <<"E", "O", "F", ":", " ", "1">>
DbErrorText == <<"d", "b", ":", " ", "g", "o", "n", "e">>

\* request.parse_json::<T>() that failed
BadBody == [ok |-> FALSE]

\* User::select_by_column(db, "account", account): rows in uid order
ByAccount(account) == {u \in DOMAIN users : users[u].account = account}
First(S) == CHOOSE u \in S : \A v \in S : u <= v

\* the response of one handler invocation: what the operation rendered, then,
\* if it returned Err(e), what handle_error!(operation, response) added
Handled(name, rendered, result, cookie) ==
  IF result = None
    THEN [handler |-> name, rendered |-> rendered, log |-> <<>>, cookie |-> cookie,
          panicked |-> FALSE]
    ELSE LET o == handle_error(result[1])
         IN [handler |-> name, rendered |-> rendered \o o.rendered, log |-> o.log,
             cookie |-> cookie, panicked |-> o.panicked]

\* an operation that returned Err before touching the store or the response
Fails(name, e) ==
  /\ err' = Some(e)
  /\ resp' = Handled(name, <<>>, Some(e), None)
  /\ UNCHANGED <<problems, nextPid, pending, now, issued, users, nextUid, records>>

\* the uid a row gets from User::insert: the uid column is AUTO_INCREMENT, so a
\* row sent without uid, or with uid 0, gets the next counter value
AutoIncrement_zero(given) ==
  IF given = None THEN nextUid ELSE given[1]

AutoIncrement(given) ==
  IF given = None \/ given[1] = 0 THEN nextUid ELSE given[1]

\* POST /user/register
register(body, dbOk) ==
  /\ IF ~body.ok
       THEN Fails("register", Error("JsonParseError", ParseErrorText))
     ELSE IF \/ body.user.account = None \/ body.user.password = None
             \/ body.user.account[1] = <<>> \/ body.user.password[1] = <<>>
       THEN Fails("register", Error("EmptyData", EmptyUserOrPw))
     ELSE IF ~dbOk
       THEN Fails("register", Error("RbatisError", DbErrorText))
     ELSE IF ByAccount(body.user.account[1]) # {}
       THEN Fails("register",
                  Error("DuplicateData", AccountPfx \o body.user.account[1] \o <<".">>))
     ELSE IF AutoIncrement(body.user.uid) \in DOMAIN users
       THEN Fails("register", Error("RbatisError", DbErrorText))
     ELSE /\ users' = [u \in DOMAIN users \cup {AutoIncrement(body.user.uid)} |->
                         IF u = AutoIncrement(body.user.uid)
                           THEN [uid |-> u, avatar |-> DefaultAvatar,
                                 account |-> body.user.account[1],
                                 password |-> body.user.password[1],
                                 join_time |-> now, auth |-> "User"]
                           ELSE users[u]]
          /\ nextUid' = IF AutoIncrement(body.user.uid) >= nextUid
                          THEN AutoIncrement(body.user.uid) + 1 ELSE nextUid
          /\ err' = None
          /\ resp' = Handled("register", <<Res_success>>, None, None)
          /\ UNCHANGED <<problems, nextPid, pending, now, issued, records>>
  /\ last' = NoCall

\* POST /user/register up to User::insert(..).await: the body is validated and
\* the account looked up; the row to insert is built
register_begin(body, dbOk) ==
  /\ IF ~body.ok
       THEN Fails("register", Error("JsonParseError", ParseErrorText))
     ELSE IF \/ body.user.account = None \/ body.user.password = None
             \/ body.user.account[1] = <<>> \/ body.user.password[1] = <<>>
       THEN Fails("register", Error("EmptyData", EmptyUserOrPw))
     ELSE IF ~dbOk
       THEN Fails("register", Error("RbatisError", DbErrorText))
     ELSE IF ByAccount(body.user.account[1]) # {}
       THEN Fails("register",
                  Error("DuplicateData", AccountPfx \o body.user.account[1] \o <<".">>))
     ELSE /\ pending' = pending \cup
                          {[op |-> "register", token |-> None, body |-> None,
                            row |-> Some([uid |-> body.user.uid, avatar |-> DefaultAvatar,
                                          account |-> body.user.account[1],
                                          password |-> body.user.password[1],
                                          join_time |-> now, auth |-> "User"])]}
          /\ UNCHANGED <<now, issued, err, users, nextUid, records, problems, nextPid, resp>>
  /\ last' = NoCall

\* POST /user/register from User::insert on: the row built before the await is
\* inserted, whatever the table holds by now
register_end(p, dbOk) ==
  /\ p \in pending /\ p.op = "register"
  /\ pending' = pending \ {p}
  /\ IF ~dbOk \/ AutoIncrement(p.row[1].uid) \in DOMAIN users
       THEN /\ err' = Some(Error("RbatisError", DbErrorText))
            /\ resp' = Handled("register", <<>>, Some(Error("RbatisError", DbErrorText)),
                               None)
            /\ UNCHANGED <<now, issued, users, nextUid, records, problems, nextPid>>
       ELSE /\ users' = [u \in DOMAIN users \cup {AutoIncrement(p.row[1].uid)} |->
                           IF u = AutoIncrement(p.row[1].uid)
                             THEN [p.row[1] EXCEPT !.uid = u]
                             ELSE users[u]]
            /\ nextUid' = IF AutoIncrement(p.row[1].uid) >= nextUid
                            THEN AutoIncrement(p.row[1].uid) + 1 ELSE nextUid
            /\ err' = None
            /\ resp' = Handled("register", <<Res_success>>, None, None)
            /\ UNCHANGED <<now, issued, records, problems, nextPid>>
  /\ last' = NoCall

\* POST /user/login
login(body, dbOk) ==
  /\ IF ~body.ok
       THEN Fails("login", Error("JsonParseError", ParseErrorText))
     ELSE IF body.user.account = None \/ body.user.password = None
       THEN Fails("login", Error("EmptyData", EmptyUserOrPw))
     ELSE IF ~dbOk
       THEN Fails("login", Error("RbatisError", DbErrorText))
     ELSE IF \/ ByAccount(body.user.account[1]) = {}
             \/ body.user.password[1] # users[First(ByAccount(body.user.account[1]))].password
       THEN Fails("login",
                  Error("WrongPassword", AccountPfx \o body.user.account[1]
                                         \o PasswordPfx \o body.user.password[1]))
     ELSE LET user == users[First(ByAccount(body.user.account[1]))]
              enc == Jwt_encode(user.uid, user.auth, now)
          IN /\ issued' = issued \cup {[token |-> enc.token, id |-> user.uid,
                                        auth |-> user.auth, iat |-> now]}
             /\ err' = None
             /\ resp' = Handled("login", <<Res_success_data(JsonObject(user))>>, None,
                                Some([name |-> "token", value |-> enc.token,
                                      expires |-> enc.exp]))
             /\ UNCHANGED <<problems, nextPid, pending, now, users, nextUid, records>>
  /\ last' = NoCall

\* a call of check_authority made by a handler at the current clock
CheckCall(tok, id, auth) ==
  [op |-> "check", token |-> tok, id |-> id, auth |-> auth, at |-> now,
   res |-> check_authority(tok, id, auth, now)]

\* the guard on a requested level with its comparison reversed
ExceedsStored_reversed(old, authority) == ~AuthGe(authority, old.auth)

\* new_user.auth < authority: the requested level is above the stored one
ExceedsStored(old, authority) == ~AuthGe(old.auth, authority)

\* the new row assigned from the body field by field, absent fields included
Patched_clobber(old, user) ==
  [uid |-> old.uid,
   avatar |-> IF user.avatar # None THEN user.avatar[1] ELSE <<>>,
   account |-> IF user.account # None THEN user.account[1] ELSE old.account,
   password |-> IF user.password # None THEN user.password[1] ELSE <<>>,
   join_time |-> old.join_time,
   auth |-> IF user.auth # None THEN user.auth[1] ELSE old.auth]

\* new_user: the stored row with the fields the body names replaced
Patched(old, user) ==
  [uid |-> old.uid,
   avatar |-> IF user.avatar # None THEN user.avatar[1] ELSE old.avatar,
   account |-> IF user.account # None THEN user.account[1] ELSE old.account,
   password |-> IF user.password # None THEN user.password[1] ELSE old.password,
   join_time |-> old.join_time,
   auth |-> IF user.auth # None THEN user.auth[1] ELSE old.auth]

\* POST /user/update: cookie "token", body {uid, fields to change}
update(cookie, body, dbOk) ==
  /\ IF cookie = None
       THEN Fails("update", Error("NoToken", EmptyDot))
     ELSE IF ~body.ok
       THEN Fails("update", Error("JsonParseError", ParseErrorText))
     ELSE IF body.user.uid = None
       THEN Fails("update", Error("EmptyData", UidNotFound))
     ELSE IF ~check_authority(cookie[1], body.user.uid[1], "Admin", now)
       THEN Fails("update",
                  Error("NoAuthority", UserPfx \o I32ToString(body.user.uid[1]) \o <<".">>))
     ELSE IF ~dbOk
       THEN Fails("update", Error("RbatisError", DbErrorText))
     ELSE IF body.user.uid[1] \notin DOMAIN users
       THEN Fails("update", Error("DataNotFound", I32ToString(body.user.uid[1])))
     ELSE IF /\ body.user.auth # None
             /\ ExceedsStored(users[body.user.uid[1]], body.user.auth[1])
       THEN Fails("update",
                  Error("NoAuthority", UserPfx \o I32ToString(body.user.uid[1]) \o <<".">>))
     ELSE LET old == users[body.user.uid[1]]
              new_user == Patched(old, body.user)
          IN /\ users' = [users EXCEPT ![old.uid] = new_user]
             /\ err' = None
             /\ resp' = Handled("update", <<Res_success>>, None, None)
             /\ UNCHANGED <<problems, nextPid, pending, now, issued, nextUid, records>>
  /\ last' = IF cookie # None /\ body.ok /\ body.user.uid # None
               THEN CheckCall(cookie[1], body.user.uid[1], "Admin")
               ELSE NoCall

\* POST /user/delete: cookie "token", body {uid}
delete(cookie, body, dbOk) ==
  /\ IF cookie = None
       THEN Fails("delete", Error("NoToken", EmptyDot))
     ELSE IF ~body.ok
       THEN Fails("delete", Error("JsonParseError", ParseErrorText))
     ELSE IF body.user.uid = None
       THEN Fails("delete", Error("EmptyData", <<>>))
     ELSE IF ~check_authority(cookie[1], body.user.uid[1], "Admin", now)
       THEN Fails("delete",
                  Error("NoAuthority", UserPfx \o I32ToString(body.user.uid[1]) \o <<".">>))
     ELSE IF ~dbOk
       THEN Fails("delete", Error("RbatisError", DbErrorText))
     ELSE /\ users' = [u \in DOMAIN users \ {body.user.uid[1]} |-> users[u]]
          /\ err' = None
          /\ resp' = Handled("delete", <<Res_success>>, None, None)
          /\ UNCHANGED <<problems, nextPid, pending, now, issued, nextUid, records>>
  /\ last' = IF cookie # None /\ body.ok /\ body.user.uid # None
               THEN CheckCall(cookie[1], body.user.uid[1], "Admin")
               ELSE NoCall

\* ---------------------------------------------------------- module/record.rs
\* the Authorization header: absent, not visible ASCII, or a token string
NoHeader == [kind |-> "none"]
BinaryHeader == [kind |-> "binary"]
TokenHeader(tok) == [kind |-> "token", token |-> tok]

\* POST /record/insert: header.to_str().unwrap() aborts on a header that is
\* not visible ASCII; the stored record is sent to the judger after the
\* success envelope has been rendered
record_insert(header, body, dbOk, judgerOk) ==
  /\ IF header.kind = "none"
       THEN Fails("record_insert", Error("NoToken", EmptyDot))
     ELSE IF header.kind = "binary"
       THEN /\ err' = None
            /\ resp' = [handler |-> "record_insert", rendered |-> <<>>, log |-> <<>>,
                        cookie |-> None, panicked |-> TRUE]
            /\ UNCHANGED <<problems, nextPid, pending, now, issued, users, nextUid, records>>
     ELSE IF ~check_authority(header.token, 0, "User", now)
       THEN Fails("record_insert", Error("NoToken", EmptyDot))
     ELSE IF ~body.ok
       THEN Fails("record_insert", Error("JsonParseError", ParseErrorText))
     ELSE IF \/ body.record.uid = None \/ body.record.pid = None
             \/ body.record.language = None
       THEN Fails("record_insert", Error("EmptyData", EmptyDot))
     ELSE IF ~dbOk
       THEN Fails("record_insert", Error("RbatisError", DbErrorText))
     ELSE /\ records' = Append(records,
                               [rid |-> Len(records) + 1, uid |-> body.record.uid[1],
                                pid |-> body.record.pid[1],
                                language |-> body.record.language[1],
                                code |-> body.record.code, submit_time |-> now,
                                status |-> "Waiting", run_time |-> None])
          /\ err' = IF judgerOk THEN None ELSE Some(Error("DataNotFound", SendFailed))
          /\ resp' = IF judgerOk
                       THEN Handled("record_insert", <<Res_success, Res_success>>, None, None)
                       ELSE Handled("record_insert", <<Res_success>>,
                                    Some(Error("DataNotFound", SendFailed)), None)
          /\ UNCHANGED <<problems, nextPid, pending, now, issued, users, nextUid>>
  /\ last' = IF header.kind = "token" THEN CheckCall(header.token, 0, "User") ELSE NoCall

RecordPfx == <<"R", "e", "c", "o", "r", "d", " ">>

\* POST /record/update: the row is read, the caller is checked against the
\* sentinel owner 0 with floor Judger, then status and run_time are written
record_update(header, body, dbOk) ==
  /\ IF header.kind = "none"
       THEN Fails("record_update", Error("NoToken", EmptyDot))
     ELSE IF header.kind = "binary"
       THEN /\ err' = None
            /\ resp' = [handler |-> "record_update", rendered |-> <<>>, log |-> <<>>,
                        cookie |-> None, panicked |-> TRUE]
            /\ UNCHANGED <<problems, nextPid, pending, now, issued, users, nextUid, records>>
     ELSE IF ~body.ok
       THEN Fails("record_update", Error("JsonParseError", ParseErrorText))
     ELSE IF body.record.rid = None
       THEN Fails("record_update", Error("EmptyData", EmptyDot))
     ELSE IF ~dbOk
       THEN Fails("record_update", Error("RbatisError", DbErrorText))
     ELSE IF body.record.rid[1] \notin 1..Len(records)
       THEN Fails("record_update",
                  Error("DataNotFound",
                        RecordPfx \o I32ToString(body.record.rid[1]) \o <<".">>))
     ELSE IF ~check_authority(header.token, 0, "Judger", now)
       THEN Fails("record_update", Error("NoAuthority", EmptyDot))
     ELSE LET old == records[body.record.rid[1]]
              new_record ==
                [old EXCEPT
                   !.status = IF body.record.status # None THEN body.record.status[1]
                              ELSE old.status,
                   !.run_time = IF body.record.run_time # None THEN body.record.run_time
                                ELSE old.run_time]
          IN /\ records' = [records EXCEPT ![old.rid] = new_record]
             /\ err' = None
             /\ resp' = Handled("record_update", <<Res_success>>, None, None)
             /\ UNCHANGED <<problems, nextPid, pending, now, issued, users, nextUid>>
  /\ last' = IF /\ header.kind = "token" /\ body.ok /\ body.record.rid # None /\ dbOk
                /\ body.record.rid[1] \in 1..Len(records)
               THEN CheckCall(header.token, 0, "Judger")
               ELSE NoCall

\* --------------------------------------------------------- module/problem.rs
EmptyTitle == <<"E", "m", "p", "t", "y", " ", "t", "i", "t", "l", "e", ".">>
EmptyPid == <<"E", "m", "p", "t", "y", " ", "p", "r", "o", "b", "l", "e", "m", " ", "i", "d", ".">>
EmptyNoDot == <<"E", "m", "p", "t", "y">>
ProblemPfx == <<"P", "r", "o", "b", "l", "e", "m", " ">>
NoAuthorityToDelete == <<"u", "s", "e", "r", " ", "h", "a", "s", " ", "n", "o", " ", "a", "u", "t", "h", "o", "r", "i", "t", "y", " ", "t", "o", " ", "d", "e", "l", "e", "t", "e", " ", "p", "r", "o", "b", "l", "e", "m", " ", "o", "w", "n", "e", "r", "e", "d", " ", "b", "y", " ", "u", "s", "e", "r", " ">>

\* a handler that aborted (unwrap on None / Err): nothing is rendered
Aborts(name) ==
  /\ err' = None
  /\ resp' = [handler |-> name, rendered |-> <<>>, log |-> <<>>, cookie |-> None,
              panicked |-> TRUE]
  /\ UNCHANGED <<now, issued, users, nextUid, records, problems, nextPid>>

\* a resumed operation that returned Err
FailsResumed(name, e) ==
  /\ err' = Some(e)
  /\ resp' = Handled(name, <<>>, Some(e), None)
  /\ UNCHANGED <<now, issued, users, nextUid, records, problems, nextPid>>

\* what a task holds while it is suspended at an .await
Suspended(op, token, body, row) == [op |-> op, token |-> token, body |-> body, row |-> row]

\* POST /problem/insert up to request.parse_json().await: the Authorization
\* header, then check_authority(token, 0, User)
problem_insert_begin(header) ==
  /\ IF header.kind = "none"
       THEN Fails("problem_insert", Error("NoToken", EmptyDot))
     ELSE IF header.kind = "binary"
       THEN Aborts("problem_insert") /\ UNCHANGED pending
     ELSE IF ~check_authority(header.token, 0, "User", now)
       THEN Fails("problem_insert", Error("NoAuthority", EmptyDot))
     ELSE /\ pending' = pending \cup {Suspended("problem_insert", Some(header.token), None, None)}
          /\ UNCHANGED <<now, issued, err, users, nextUid, records, problems, nextPid, resp>>
  /\ last' = IF header.kind = "token" THEN CheckCall(header.token, 0, "User") ELSE NoCall

\* POST /problem/insert from the parsed body on: the title, the uploader id
\* from Jwt::decode(token).unwrap(), the defaults, Problem::insert
problem_insert_end(p, body, dbOk) ==
  /\ p \in pending /\ p.op = "problem_insert"
  /\ pending' = pending \ {p}
  /\ IF ~body.ok
       THEN FailsResumed("problem_insert", Error("JsonParseError", ParseErrorText))
     ELSE IF body.problem.title = None
       THEN FailsResumed("problem_insert", Error("EmptyData", EmptyTitle))
     ELSE IF ~Jwt_decode(p.token[1], now).ok
       THEN Aborts("problem_insert")
     ELSE IF ~dbOk
       THEN FailsResumed("problem_insert", Error("RbatisError", DbErrorText))
     ELSE /\ problems' = [q \in DOMAIN problems \cup {nextPid} |->
                            IF q = nextPid
                              THEN [pid |-> Some(nextPid), title |-> body.problem.title,
                                    description |-> body.problem.description,
                                    judge_num |-> Some(0), time_limit |-> Some(1000),
                                    memory_limit |-> Some(128),
                                    uid |-> Some(Jwt_decode(p.token[1], now).id)]
                              ELSE problems[q]]
          /\ nextPid' = nextPid + 1
          /\ err' = None
          /\ resp' = Handled("problem_insert", <<Res_success>>, None, None)
          /\ UNCHANGED <<now, issued, users, nextUid, records>>
  /\ last' = IF body.ok /\ body.problem.title # None
               THEN [op |-> "decode", token |-> p.token[1], at |-> now,
                     res |-> Jwt_decode(p.token[1], now)]
               ELSE NoCall

\* match dbres[0].uid { Some(uid) => uid, None => 0 }
OwnerOf(row) == IF row.uid # None THEN row.uid[1] ELSE 0

\* POST /problem/update up to Problem::update_by_column(..).await: the row is
\* read, the caller is checked against the row's owner as read, and the new
\* row is built from the row as read and the fields the body names
problem_update_begin(header, body, dbOk) ==
  /\ IF header.kind = "none"
       THEN Fails("problem_update", Error("NoToken", EmptyDot))
     ELSE IF header.kind = "binary"
       THEN Aborts("problem_update") /\ UNCHANGED pending
     ELSE IF ~body.ok
       THEN Fails("problem_update", Error("JsonParseError", ParseErrorText))
     ELSE IF body.problem.pid = None
       THEN Fails("problem_update", Error("EmptyData", EmptyPid))
     ELSE IF ~dbOk
       THEN Fails("problem_update", Error("RbatisError", DbErrorText))
     ELSE IF body.problem.pid[1] \notin DOMAIN problems
       THEN Fails("problem_update",
                  Error("DataNotFound",
                        ProblemPfx \o I32ToString(body.problem.pid[1]) \o <<".">>))
     ELSE IF ~check_authority(header.token, OwnerOf(problems[body.problem.pid[1]]),
                              "Admin", now)
       THEN Fails("problem_update", Error("NoAuthority", EmptyNoDot))
     ELSE LET old == problems[body.problem.pid[1]]
              new_problem ==
                [old EXCEPT
                   !.title = IF body.problem.title # None THEN body.problem.title
                             ELSE old.title,
                   !.description = IF body.problem.description # None
                                     THEN body.problem.description ELSE old.description,
                   !.uid = IF body.problem.uid # None THEN body.problem.uid ELSE old.uid]
          IN /\ pending' = pending \cup
                             {Suspended("problem_update", Some(header.token),
                                        Some(body.problem), Some(new_problem))}
             /\ UNCHANGED <<now, issued, err, users, nextUid, records, problems, nextPid,
                            resp>>
  /\ last' = IF /\ header.kind = "token" /\ body.ok /\ body.problem.pid # None /\ dbOk
                /\ body.problem.pid[1] \in DOMAIN problems
               THEN CheckCall(header.token, OwnerOf(problems[body.problem.pid[1]]), "Admin")
               ELSE NoCall

\* POST /problem/update from Problem::update_by_column on: every column of
\* new_problem is written to the row with its pid (no row: nothing written)
problem_update_end(p, dbOk) ==
  /\ p \in pending /\ p.op = "problem_update"
  /\ pending' = pending \ {p}
  /\ IF ~dbOk
       THEN FailsResumed("problem_update", Error("RbatisError", DbErrorText))
       ELSE /\ problems' = IF p.row[1].pid[1] \in DOMAIN problems
                             THEN [problems EXCEPT ![p.row[1].pid[1]] = p.row[1]]
                             ELSE problems
            /\ err' = None
            /\ resp' = Handled("problem_update", <<Res_success>>, None, None)
            /\ UNCHANGED <<now, issued, users, nextUid, records, nextPid>>
  /\ last' = NoCall

\* POST /problem/delete
problem_delete(header, body, dbOk) ==
  /\ IF header.kind = "none"
       THEN Fails("problem_delete", Error("NoToken", EmptyDot))
     ELSE IF header.kind = "binary"
       THEN Aborts("problem_delete")
     ELSE IF ~body.ok
       THEN Fails("problem_delete", Error("JsonParseError", ParseErrorText))
     ELSE IF body.problem.pid = None
       THEN Fails("problem_delete", Error("EmptyData", EmptyDot))
     ELSE IF ~dbOk
       THEN Fails("problem_delete", Error("RbatisError", DbErrorText))
     ELSE IF body.problem.pid[1] \notin DOMAIN problems
       THEN Fails("problem_delete",
                  Error("DataNotFound",
                        ProblemPfx \o I32ToString(body.problem.pid[1]) \o <<".">>))
     ELSE IF ~check_authority(header.token, OwnerOf(problems[body.problem.pid[1]]),
                              "Admin", now)
       THEN Fails("problem_delete",
                  Error("NoAuthority",
                        NoAuthorityToDelete
                          \o I32ToString(OwnerOf(problems[body.problem.pid[1]]))))
     ELSE /\ problems' = [q \in DOMAIN problems \ {body.problem.pid[1]} |-> problems[q]]
          /\ err' = None
          /\ resp' = Handled("problem_delete", <<Res_success>>, None, None)
          /\ UNCHANGED <<now, issued, users, nextUid, records, nextPid>>
  /\ UNCHANGED pending
  /\ last' = IF /\ header.kind = "token" /\ body.ok /\ body.problem.pid # None /\ dbOk
                /\ body.problem.pid[1] \in DOMAIN problems
               THEN CheckCall(header.token, OwnerOf(problems[body.problem.pid[1]]), "Admin")
               ELSE NoCall

\* ------------------------------------------------------- the request inputs
UserBody(uid, avatar, account, password, auth) ==
  [ok |-> TRUE,
   user |-> [uid |-> uid, avatar |-> avatar, account |-> account,
             password |-> password, auth |-> auth]]

RecordBody(uid, pid, language, code) ==
  [ok |-> TRUE, record |-> [uid |-> uid, pid |-> pid, language |-> language, code |-> code]]

Uids == 1..MaxUsers

\* bodies of /user/register and /user/login
CredentialBodies ==
  {BadBody} \cup
  {UserBody(u, None, a, p, l) :
     u \in {None, Some(0), Some(MaxUsers)},
     a \in {None, Some(<<>>), Some(<<"a">>), Some(<<"r">>)},
     p \in {None, Some(<<"p">>), Some(<<"q">>)},
     l \in {None, Some("Admin")}}

\* bodies of /user/update: the uid alone, or the uid and a level
UpdateBodies ==
  {BadBody, UserBody(None, None, None, None, None)} \cup
  {UserBody(Some(u), None, None, None, a) :
     u \in Uids, a \in {None, Some("Tourist"), Some("Admin")}}

\* bodies of /user/delete
DeleteBodies ==
  {BadBody, UserBody(None, None, None, None, None)} \cup
  {UserBody(Some(u), None, None, None, None) : u \in Uids}

\* bodies of /record/insert
RecordBodies ==
  {BadBody, RecordBody(Some(1), None, Some("Cpp"), None),
   RecordBody(Some(1), Some(1), Some("Cpp"), Some(<<"x">>))}

\* bodies of /user/update naming any of avatar, account, password and level,
\* for the administrator's uid and the last uid the store can hold
FieldBodies ==
  {UserBody(None, None, Some(<<"r">>), None, None)} \cup
  {UserBody(Some(u), av, ac, pw, a) :
     u \in {1, MaxUsers}, av \in {None, Some(<<"v">>)}, ac \in {None, Some(<<"r">>)},
     pw \in {None, Some(<<"q">>)}, a \in {None, Some("Tourist")}}

RecordPatch(rid, status, run_time) ==
  [ok |-> TRUE, record |-> [rid |-> rid, status |-> status, run_time |-> run_time]]

\* bodies of /record/update
RecordPatches ==
  {BadBody, RecordPatch(None, None, None)} \cup
  {RecordPatch(Some(r), st, rt) :
     r \in 1..MaxRecords, st \in {None, Some("Ac")}, rt \in {None, Some(5)}}

ProblemBody(pid, title, description, uid) ==
  [ok |-> TRUE,
   problem |-> [pid |-> pid, title |-> title, description |-> description, uid |-> uid]]

\* bodies of /problem/insert
ProblemInsertBodies ==
  {BadBody, ProblemBody(None, None, None, None),
   ProblemBody(None, Some(<<"t">>), None, None)}

\* bodies of /problem/update
ProblemUpdateBodies ==
  {BadBody, ProblemBody(None, None, None, None)} \cup
  {ProblemBody(Some(q), t, d, u) :
     q \in 1..MaxProblems, t \in {None, Some(<<"u">>)}, d \in {None},
     u \in {None} \cup {Some(x) : x \in Uids}}

\* bodies of /problem/delete
ProblemDeleteBodies ==
  {BadBody, ProblemBody(None, None, None, None)} \cup
  {ProblemBody(Some(q), None, None, None) : q \in 1..MaxProblems}

\* the cookie "token" of a request: absent, or a token a client was handed
Cookies == {None} \cup {Some(i.token) : i \in issued}

\* the Authorization header of a request
Headers == {NoHeader, BinaryHeader} \cup {TokenHeader(t) : t \in TokenInputs}

\* the Authorization header of a request to /problem: absent, not visible
\* ASCII, a token a client was handed, or one with its signature changed
ProblemHeaders ==
  {NoHeader, BinaryHeader}
    \cup {TokenHeader(i.token) : i \in issued}
    \cup {TokenHeader([i.token EXCEPT !.sig = Sign(i.token.id, i.token.auth, i.token.exp,
                                                    "another key")]) : i \in issued}

\* the store as deployed: one administrator row, inserted by hand
Init ==
  /\ now = 0
  /\ issued = {}
  /\ last = NoCall
  /\ err = None
  /\ users = [u \in {1} |->
                [uid |-> 1, avatar |-> DefaultAvatar, account |-> <<"r">>,
                 password |-> <<"p">>, join_time |-> 0, auth |-> "Admin"]]
  /\ nextUid = 2
  /\ records = <<>>
  /\ problems = <<>>
  /\ nextPid = 1
  /\ pending = {}
  /\ resp = NoResp

\* no request is running: none has a response to write or a call to return from
Idle == resp = NoResp /\ last = NoCall

Register == \E body \in CredentialBodies, dbOk \in BOOLEAN :
  Idle /\ nextUid <= MaxUsers /\ register(body, dbOk)

Login == \E body \in CredentialBodies, dbOk \in BOOLEAN :
  Idle /\ login(body, dbOk) /\ Cardinality(issued') <= MaxTokens

Update == \E cookie \in Cookies, body \in UpdateBodies, dbOk \in BOOLEAN :
  Idle /\ update(cookie, body, dbOk)

Delete == \E cookie \in Cookies, body \in DeleteBodies, dbOk \in BOOLEAN :
  Idle /\ delete(cookie, body, dbOk)

RecordInsert == \E header \in Headers, body \in RecordBodies, dbOk \in BOOLEAN,
                   judgerOk \in BOOLEAN :
  Idle /\ Len(records) < MaxRecords /\ record_insert(header, body, dbOk, judgerOk)

\* the running request leaves the processor: its response is written to the
\* connection, or it is suspended at its .await
Send ==
  /\ ~Idle
  /\ resp' = NoResp
  /\ last' = NoCall
  /\ err' = None
  /\ UNCHANGED <<problems, nextPid, pending, now, issued, users, nextUid, records>>

\* time passes between two requests: to just before a held token's expiry,
\* or to just after its grace period
Advance ==
  /\ Idle
  /\ \E i \in issued : \E t \in {i.token.exp - 1, i.token.exp + Leeway + 1} :
       t > now /\ now' = t
  /\ UNCHANGED <<problems, nextPid, pending, issued, last, err, users, nextUid, records, resp>>

\* the user handlers, one request at a time
Next == Register \/ Login \/ Update \/ Delete \/ Advance \/ Send

Spec == Init /\ [][Next]_vars

RecordUpdate == \E header \in Headers, body \in RecordPatches, dbOk \in BOOLEAN :
  Idle /\ record_update(header, body, dbOk)

\* a request is suspended at its .await and resumed later; others run between
ProblemInsertBegin == \E header \in ProblemHeaders :
  Idle /\ Cardinality(pending) < MaxPending /\ nextPid <= MaxProblems
       /\ problem_insert_begin(header)

ProblemInsertEnd == \E p \in pending, body \in ProblemInsertBodies, dbOk \in BOOLEAN :
  Idle /\ nextPid <= MaxProblems /\ problem_insert_end(p, body, dbOk)

ProblemUpdateBegin == \E header \in ProblemHeaders, body \in ProblemUpdateBodies,
                         dbOk \in BOOLEAN :
  Idle /\ Cardinality(pending) < MaxPending /\ problem_update_begin(header, body, dbOk)

ProblemUpdateEnd == \E p \in pending, dbOk \in BOOLEAN :
  Idle /\ problem_update_end(p, dbOk)

ProblemDelete == \E header \in ProblemHeaders, body \in ProblemDeleteBodies, dbOk \in BOOLEAN :
  Idle /\ problem_delete(header, body, dbOk)

RegisterBegin == \E body \in CredentialBodies, dbOk \in BOOLEAN :
  Idle /\ Cardinality(pending) < MaxPending /\ register_begin(body, dbOk)

RegisterEnd == \E p \in pending, dbOk \in BOOLEAN :
  Idle /\ nextUid <= MaxUsers /\ register_end(p, dbOk)

UpdateFields == \E cookie \in Cookies, body \in FieldBodies, dbOk \in BOOLEAN :
  Idle /\ update(cookie, body, dbOk)

\* the record handlers, one request at a time
NextRecord == Register \/ Login \/ RecordInsert \/ RecordUpdate \/ Advance \/ Send

SpecRecord == Init /\ [][NextRecord]_vars

\* the handlers that pass the sentinel owner 0 to check_authority, at one
\* reading of the clock
NextSentinel ==
  \/ Register \/ Login \/ RecordInsert \/ RecordUpdate
  \/ ProblemInsertBegin \/ ProblemInsertEnd \/ Send

SpecSentinel == Init /\ [][NextSentinel]_vars

\* the problem handlers, their requests interleaved at the .await points
NextProblem ==
  \/ Register \/ Login
  \/ ProblemInsertBegin \/ ProblemInsertEnd \/ ProblemUpdateBegin \/ ProblemUpdateEnd
  \/ ProblemDelete \/ Advance \/ Send

SpecProblem == Init /\ [][NextProblem]_vars

\* every handler that changes or removes a user or a problem
NextGuard ==
  \/ Register \/ Login \/ Update \/ Delete
  \/ ProblemInsertBegin \/ ProblemInsertEnd \/ ProblemUpdateBegin \/ ProblemUpdateEnd
  \/ ProblemDelete \/ Send

SpecGuard == Init /\ [][NextGuard]_vars

\* a freshly created store: no rows yet
InitEmpty ==
  /\ now = 0
  /\ issued = {}
  /\ last = NoCall
  /\ err = None
  /\ users = <<>>
  /\ nextUid = 1
  /\ records = <<>>
  /\ problems = <<>>
  /\ nextPid = 1
  /\ pending = {}
  /\ resp = NoResp

\* concurrent registrations
NextRegister == RegisterBegin \/ RegisterEnd \/ Send

SpecRegister == InitEmpty /\ [][NextRegister]_vars

\* registration, login and updates of the level, one request at a time
NextLevels == Register \/ Login \/ Update \/ Send

SpecLevels == Init /\ [][NextLevels]_vars

\* registration, login and updates of every field, one request at a time
NextUser == Register \/ Login \/ UpdateFields \/ Send

SpecUser == Init /\ [][NextUser]_vars

\* ================================================================= claims
\* the Authority Scale as the specification states it
ScaleRank(a) ==
  CASE a = "Tourist" -> 0
    [] a = "User" -> 10
    [] a = "Judger" -> 20
    [] a = "Admin" -> 30

\* the wrapped (first-arm) variants of Error
WrappedKinds == {"JsonParseError", "RbatisError", "TokenError"}

\* needle occurs in text as a contiguous run
IsSubstring(needle, text) ==
  \E i \in 0..(Len(text) - Len(needle)) : SubSeq(text, i + 1, i + Len(needle)) = needle

\* the last call was check_authority / Jwt::decode
Checked == last.op = "check"
Decoded == last.op = "decode"

\* the Jwt::encode calls that produced the token of the last call
IssuedAs == {i \in issued : i.token = last.token}

\* handle_error has run on the error in `err`
ErrorHandled == resp.handler # "none" /\ err # None

\* C1: check_authority(token, owner, required) is true if and only if the
\* token verifies and (its subject id equals the owner id or its authority is
\* at least the required level).
C1_CheckAuthorityIff ==
  Checked =>
    LET d == Jwt_decode(last.token, last.at)
    IN last.res = (d.ok /\ (d.id = last.id \/ ScaleRank(d.auth) >= ScaleRank(last.auth)))

\* C1 witness: a verified Tourist token presented for its own subject's
\* resource with required level Admin, accepted.
C1_SelfServiceAccepted ==
  /\ Checked
  /\ Jwt_decode(last.token, last.at).ok
  /\ last.token.id = last.id
  /\ last.token.auth = 0
  /\ last.auth = "Admin"
  /\ last.res = TRUE

\* C2: for an error of the first arm (JsonParseError, RbatisError,
\* TokenError) the rendered envelope has message "internal error" and neither
\* its message nor its data contains the error's detail string.
C2_InternalDetailHidden ==
  (ErrorHandled /\ err[1].kind \in WrappedKinds /\ err[1].detail # <<>>) =>
    \A k \in 1..Len(resp.rendered) :
      /\ resp.rendered[k].message = Some(InternalErrorMsg)
      /\ ~IsSubstring(err[1].detail, resp.rendered[k].message[1])
      /\ resp.rendered[k].data # None =>
           ~IsSubstring(err[1].detail, resp.rendered[k].data[1].value)

\* C3 as stated: a token issued at t with window W fails Jwt::decode at every
\* time >= t + W and succeeds at every time before t + W.
C3_NoGracePeriod ==
  Decoded => \A i \in IssuedAs : last.res.ok <=> last.at < i.iat + Window

\* C3 amended: Jwt::decode of an issued token succeeds at every time up to and
\* including t + W + 60 s and fails at every later time.
C3_ExpiryWithLeeway ==
  Decoded => \A i \in IssuedAs : last.res.ok <=> last.at <= i.iat + Window + Leeway

\* C3 witness: an issued token decoded at the last second of its grace
\* period, successfully.
C3_DecodedInGrace ==
  /\ Decoded
  /\ \E i \in IssuedAs : last.at = i.iat + Window + Leeway
  /\ last.res.ok

\* how the arm that ran shows in the outcome
RenderedInternal ==
  /\ Len(resp.log) = 1 /\ resp.log[1].level = "error"
  /\ Len(resp.rendered) = 1 /\ resp.rendered[1].message = Some(InternalErrorMsg)
RenderedClient ==
  /\ Len(resp.log) = 1 /\ resp.log[1].level = "warn"
  /\ Len(resp.rendered) = 1 /\ resp.rendered[1].message # Some(InternalErrorMsg)

\* C4 as stated: a body that fails to parse is Client-class, only storage and
\* token failures are Internal-class, every other kind is Client-class.
C4_TableClasses ==
  ErrorHandled =>
    IF err[1].kind \in {"RbatisError", "TokenError"} THEN RenderedInternal ELSE RenderedClient

\* C4 amended: JsonParseError, RbatisError and TokenError are Internal-class,
\* the six other kinds are Client-class, and each error takes exactly one arm.
C4_CodeClasses ==
  ErrorHandled =>
    /\ IF err[1].kind \in WrappedKinds THEN RenderedInternal ELSE RenderedClient
    /\ ~(RenderedInternal /\ RenderedClient)

\* C4 witness: a JsonParseError rendered as "internal error".
C4_ParseErrorInternal ==
  ErrorHandled /\ err[1].kind = "JsonParseError" /\ RenderedInternal

\* C5: every handler invocation that runs to its end renders exactly one
\* envelope: none is rendered after a success envelope.
C5_ExactlyOneEnvelope ==
  (resp.handler # "none" /\ ~resp.panicked) => Len(resp.rendered) = 1

\* C6: an issued token decoded before its expiry gives back exactly the
\* subject id and authority passed to Jwt::encode.
C6_RoundTrip ==
  Decoded =>
    \A i \in IssuedAs :
      last.at < i.token.exp =>
        last.res.ok /\ last.res.id = i.id /\ last.res.auth = i.auth

\* C6 witness: a Judger token decoded one second before its expiry.
C6_DecodedBeforeExpiry ==
  /\ Decoded
  /\ \E i \in IssuedAs : i.auth = "Judger" /\ last.at = i.token.exp - 1 /\ last.at > i.iat
  /\ last.res.ok

\* C7: where the level decides (a verified token of another subject), the
\* comparison is the one of the ranks 0 < 10 < 20 < 30: Admin passes every
\* floor, Tourist passes only the Tourist floor.
C7_OrderByRank ==
  Checked =>
    LET d == Jwt_decode(last.token, last.at)
    IN (d.ok /\ d.id # last.id) =>
         /\ last.res = (ScaleRank(d.auth) >= ScaleRank(last.auth))
         /\ d.auth = "Admin" => last.res
         /\ d.auth = "Tourist" => (last.res <=> last.auth = "Tourist")

\* C7 witness: a Judger token of another subject against the Admin floor,
\* rejected.
C7_JudgerBelowAdmin ==
  /\ Checked
  /\ Jwt_decode(last.token, last.at).ok
  /\ last.token.id # last.id
  /\ last.token.auth = 20
  /\ last.auth = "Admin"
  /\ last.res = FALSE

\* C8: when verification fails, check_authority is false for every owner and
\* every required level; its result is a plain boolean.
C8_UnverifiedRejected ==
  Checked =>
    /\ last.res \in BOOLEAN
    /\ ~Jwt_decode(last.token, last.at).ok => last.res = FALSE

\* C8 witness: an expired token presented for its own subject with the
\* Tourist floor, rejected.
C8_ExpiredRejected ==
  /\ Checked
  /\ ~Jwt_decode(last.token, last.at).ok
  /\ Jwt_decode(last.token, last.at).error = "ExpiredSignature"
  /\ last.token.id = last.id
  /\ last.auth = "Tourist"
  /\ last.res = FALSE

\* C9: a Client-class error of kind K with detail d is rendered as one
\* envelope with status "error", message K and data exactly d.
C9_ClientEnvelope ==
  (ErrorHandled /\ err[1].kind \notin WrappedKinds) =>
    resp.rendered = <<Res(Some("error"), Some(KindName(err[1].kind)),
                          Some(JsonString(err[1].detail)))>>

\* C9 witness: a detail that itself starts with ':' rendered whole.
C9_ColonDetailRendered ==
  /\ ErrorHandled
  /\ err[1].kind = "NoAuthority"
  /\ err[1].detail = <<":", " ", ":">>
  /\ resp.rendered[1].data = Some(JsonString(<<":", " ", ":">>))

\* C10: before its expiry an issued token is accepted or rejected by
\* check_authority according to the subject id and authority it was issued
\* with, whatever has since happened to that user's row.
C10_Stateless ==
  Checked =>
    \A i \in IssuedAs :
      last.at < i.token.exp =>
        last.res = (i.id = last.id \/ ScaleRank(i.auth) >= ScaleRank(last.auth))

\* C10 witness: a token accepted on its issued authority alone, at a later
\* time, after its user's row was deleted or its stored authority changed.
C10_AcceptedAfterRowChanged ==
  /\ Checked
  /\ \E i \in IssuedAs :
       /\ last.at > i.iat /\ last.at < i.token.exp
       /\ i.id # last.id
       /\ i.id \notin DOMAIN users \/ users[i.id].auth # i.auth
  /\ last.res = TRUE

\* the verified claims of the token of the last check_authority call
Caller == Jwt_decode(last.token, last.at)

\* a record's status or run time differs from what was stored before the step
RecordJudged ==
  \E r \in 1..Len(records) :
    records'[r].status # records[r].status \/ records'[r].run_time # records[r].run_time

C11_Step ==
  /\ \A i \in issued' : i.id # 0
  /\ (last'.op = "check" /\ last'.id = 0) =>
       last'.res = (Caller'.ok /\ ScaleRank(Caller'.auth) >= ScaleRank(last'.auth))
  /\ RecordJudged =>
       /\ last'.op = "check" /\ Caller'.ok
       /\ ScaleRank(Caller'.auth) >= ScaleRank("Judger")

C12_EnvelopeShape ==
  resp.handler # "none" =>
    /\ Len(resp.rendered) >= 1
    /\ LET e == resp.rendered[Len(resp.rendered)]
       IN /\ e.status \in {Some("success"), Some("error")}
          /\ e.status = Some("error") => e.message # None

\* C13: in problem insert the second decoding of the token, made after
\* check_authority has passed, never aborts the handler: the invocation ends
\* with an envelope, also when the token expires between the two decodings.
C13_SecondDecodeNeverAborts ==
  (resp.handler = "problem_insert" /\ Decoded) =>
    /\ ~resp.panicked
    /\ Len(resp.rendered) = 1

\* C14: a token that differs from an issued one in its signature only, or in
\* its payload only (subject, level or expiry, the signature kept), fails
\* Jwt::decode and is rejected by check_authority for every owner and level.
C14_TamperDetected ==
  (Checked \/ Decoded) =>
    \A i \in issued :
      (/\ last.token # i.token
       /\ \/ last.token.sig = i.token.sig
          \/ <<last.token.id, last.token.auth, last.token.exp>>
               = <<i.token.id, i.token.auth, i.token.exp>>) =>
        IF Checked THEN last.res = FALSE ELSE ~last.res.ok

\* C14 witness: an issued token with its expiry moved later, presented after
\* the original expiry for its own subject with the Tourist floor, rejected
\* for its signature.
C14_ExtendedExpiryRejected ==
  /\ Checked
  /\ \E i \in issued :
       /\ last.token = [i.token EXCEPT !.exp = i.token.exp + Window]
       /\ last.id = i.id
       /\ last.at > i.token.exp + Leeway /\ last.at <= last.token.exp
  /\ last.auth = "Tourist"
  /\ last.res = FALSE

\* C15: no two stored users have the same account, after any interleaving of
\* register and update requests.
C15_AccountsUnique ==
  \A u, v \in DOMAIN users : users[u].account = users[v].account => u = v

\* the stored users whose account and password are the ones a login body gives
Matching(user) ==
  {u \in DOMAIN users : users[u].account = user.account[1]
                        /\ users[u].password = user.password[1]}

\* the envelope of a client error of kind k
IsClientError(rendered, k) ==
  /\ Len(rendered) = 1
  /\ rendered[1].status = Some("error")
  /\ rendered[1].message = Some(KindName(k))

C16_Step ==
  (resp'.handler = "login") =>
    \A body \in CredentialBodies :
      (body.ok /\ login(body, TRUE)) =>
        IF body.user.account = None \/ body.user.password = None
          THEN /\ IsClientError(resp'.rendered, "EmptyData")
               /\ resp'.cookie = None /\ issued' = issued
        ELSE IF Matching(body.user) # {}
          THEN \E u \in Matching(body.user) :
                 /\ resp'.rendered = <<Res_success_data(JsonObject(users[u]))>>
                 /\ resp'.cookie # None
                 /\ resp'.cookie[1].name = "token"
                 /\ Jwt_decode(resp'.cookie[1].value, now)
                      = [ok |-> TRUE, id |-> users[u].uid, auth |-> users[u].auth]
                 /\ resp'.cookie[1].expires = resp'.cookie[1].value.exp
          ELSE /\ IsClientError(resp'.rendered, "WrongPassword")
               /\ resp'.cookie = None /\ issued' = issued

\* C16: login sets the token cookie and returns success if and only if a
\* stored user has the given account and password; the token carries that
\* user's uid and authority and the cookie expires with the token; otherwise
\* the response is WrongPassword (EmptyData when a credential is absent) and
\* no cookie is set.
C16_LoginCorrect == [][C16_Step]_vars

C17_Step ==
  (resp'.handler = "update") =>
    IF resp'.rendered = <<Res_success>>
      THEN /\ last'.op = "check" /\ last'.res
           /\ \A body \in FieldBodies :
                (/\ body.user.uid = Some(last'.id)
                 /\ update(Some(last'.token), body, TRUE)) =>
                  LET u == body.user.uid[1]
                  IN /\ DOMAIN users' = DOMAIN users
                     /\ \A v \in DOMAIN users \ {u} : users'[v] = users[v]
                     /\ users'[u].uid = users[u].uid
                     /\ users'[u].join_time = users[u].join_time
                     /\ \A f \in {"avatar", "account", "password", "auth"} :
                          users'[u][f] = IF body.user[f] # None THEN body.user[f][1]
                                         ELSE users[u][f]
      ELSE /\ users' = users /\ nextUid' = nextUid
           /\ Len(resp'.rendered) = 1 /\ resp'.rendered[1].status = Some("error")

MayChange(tok, owner) ==
  /\ Jwt_decode(tok, now).ok
  /\ Jwt_decode(tok, now).id = owner \/ Jwt_decode(tok, now).auth = "Admin"

\* the tokens of the requests that ran in this step
StepTokens ==
  {p.token[1] : p \in {x \in pending \ pending' : x.token # None}}
    \cup (IF last'.op = "check" THEN {last'.token} ELSE {})

C18_Step ==
  /\ \A u \in DOMAIN users :
       (u \notin DOMAIN users' \/ users'[u] # users[u]) =>
         \E tok \in StepTokens : MayChange(tok, u)
  /\ \A q \in DOMAIN problems :
       (q \notin DOMAIN problems' \/ problems'[q] # problems[q]) =>
         \E tok \in StepTokens : MayChange(tok, OwnerOf(problems[q]))
  /\ (resp' # resp /\ resp'.handler \in {"update", "delete", "problem_update",
                                          "problem_delete"}) =>
       /\ ~resp'.panicked
       /\ (last'.op = "check" /\ ~last'.res) =>
            /\ IsClientError(resp'.rendered, "NoAuthority")
            /\ users' = users /\ problems' = problems

\* C18: a user is changed or removed only by a request whose token verifies
\* with that user as subject or with level Admin; a problem only by one whose
\* token verifies with the stored owner as subject or with level Admin; a
\* request with a missing or invalid token or a failed check gets
\* NoToken/NoAuthority and leaves the store unchanged.
C18_NoUnauthorizedMutation == [][C18_Step]_vars

C19_Step ==
  /\ \A u \in DOMAIN users \cap DOMAIN users' :
       ScaleRank(users'[u].auth) <= ScaleRank(users[u].auth)
  /\ \A u \in DOMAIN users' \ DOMAIN users : users'[u].auth = "User"
  /\ (resp'.handler = "update") =>
       \A cookie \in Cookies, body \in UpdateBodies, dbOk \in BOOLEAN :
         (/\ body.ok /\ body.user.uid # None /\ body.user.auth # None
          /\ body.user.uid[1] \in DOMAIN users
          /\ ScaleRank(body.user.auth[1]) > ScaleRank(users[body.user.uid[1]].auth)
          /\ update(cookie, body, dbOk)) =>
           /\ users' = users
           /\ Len(resp'.rendered) = 1 /\ resp'.rendered[1].status = Some("error")
           /\ (last'.op = "check" /\ last'.res /\ dbOk) =>
                IsClientError(resp'.rendered, "NoAuthority")

C20_Step ==
  \A p \in pending \ pending' :
    (/\ p.op = "problem_update"
     /\ resp'.rendered = <<Res_success>>
     /\ p.row[1].pid[1] \in DOMAIN problems) =>
      LET q == p.row[1].pid[1]
      IN /\ \/ AuthorityFromRepr(p.token[1].auth) = Some("Admin")
            \/ p.token[1].id = OwnerOf(problems[q])
         /\ \A f \in {"title", "description", "uid"} :
              p.body[1][f] = None => problems'[q][f] = problems[q][f]

\* C20: when requests on one problem interleave, the update of a non-Admin
\* caller is written only if the caller owns the problem when the row is
\* written, and the write leaves the fields the request did not name as they
\* are stored at that moment.
C20_WriteChecksCurrentRow == [][C20_Step]_vars

\* C21: the second arm of handle_error never aborts: for every kind outside
\* the three wrapped ones and every detail, the displayed text is the kind
\* name, ": " and the detail; the first ':' is the one right after the kind
\* name, also when the detail holds a ':' of its own; and two bytes after it
\* is the start of the detail, a character boundary within the text, also
\* when the detail is empty or starts with a character of several bytes.
C21_ClientArmNeverAborts ==
  (ErrorHandled /\ err[1].kind \notin WrappedKinds) =>
    LET text == to_string(err[1])
        name == KindName(err[1].kind)
        index == Find(text, ":")
    IN /\ ~resp.panicked
       /\ Len(resp.rendered) = 1
       /\ text = name \o <<":", " ">> \o err[1].detail
       /\ index = Some(Len(name) + 1)
       /\ CharAfter(text, index[1], 2) = Len(name) + 3
       /\ CharAfter(text, index[1], 2) <= Len(text) + 1

\* C21 witness: a detail that starts with a two-byte character and holds a
\* ':' of its own went through the second arm and came out whole.
C21_MultibyteDetailRendered ==
  /\ ErrorHandled
  /\ err[1].kind = "EmptyData"
  /\ err[1].detail = <<EAcute, ":", EAcute>>
  /\ ~resp.panicked
  /\ resp.rendered[1].message = Some(KindName("EmptyData"))
  /\ resp.rendered[1].data = Some(JsonString(<<EAcute, ":", EAcute>>))

====
